---- MODULE Spec2Model ----
(***************************************************************************)
(* Model of the expense ledger of app.py: the SQLite table `expenses`, its *)
(* CRUD functions, the query function get_expenses and the two report      *)
(* generators.                                                             *)
(*                                                                         *)
(* Python's None is the empty tuple <<>>, a supplied value v is <<v>>.     *)
(* A text is a tuple of characters, an accented letter written with a     *)
(* trailing apostrophe ("e'" is e with acute).  A timestamp is the pair    *)
(* <<date, tick>>: the ISO-8601 text datetime.now().isoformat() orders     *)
(* lexicographically exactly as the pair does.                             *)
(***************************************************************************)
EXTENDS Integers, Sequences, FiniteSets, TLC

(* expenses  the rows of the table                                         *)
(* seq       sqlite_sequence: the largest rowid the table ever held        *)
(* now       the wall clock                                                *)
(* graphs, excels   the files of the two output directories                *)
(* last      the call being answered: its arguments and what it returned   *)
(* issued    history: the ids save_expense has returned, in order          *)
(* handlers  the webhook requests being handled, and the answered ones     *)
VARIABLES expenses, seq, now, graphs, excels, last, issued, handlers

vars == <<expenses, seq, now, graphs, excels, last, issued, handlers>>

-----------------------------------------------------------------------------
(* Bounds of the model *)

MaxId == 2
MaxReports == 1
TicksPerSecond == 2
DaysPerMonth == 30

(* A program constant: timedelta(days=7) *)
SevenDays == 7

(* Input sets *)

Users == {"U1", "U2"}
Values == {1, 2}
Food == <<"F", "o">>
Cafe == <<"C", "e'">>
Categories == {Food, Cafe}
Ids == 1 .. MaxId

(* the instants the wall clock shows: two ticks of one day, then the next  *)
(* day, which is also the next month                                       *)
Instants == {<<29, 0>>, <<29, 1>>, <<30, 0>>}

None == <<>>
Some(x) == <<x>>
Opt(S) == {None} \cup {Some(x) : x \in S}

-----------------------------------------------------------------------------
(* Helpers *)

SetMax(S) == CHOOSE x \in S : \A y \in S : y <= x

Range(s) == {s[i] : i \in DOMAIN s}

RECURSIVE SumSeq(_)
SumSeq(s) == IF s = <<>> THEN 0 ELSE Head(s) + SumSeq(Tail(s))

(* timestamp text comparison, as SQLite compares the ISO strings *)
TsLeq(a, b) == a[1] < b[1] \/ (a[1] = b[1] /\ a[2] <= b[2])

TsLess(a, b) == TsLeq(a, b) /\ a # b

-----------------------------------------------------------------------------
(* The table.  A stored row is [id, user_id, value, category, timestamp].  *)

(* INTEGER PRIMARY KEY: a plain rowid table takes largest rowid + 1 *)
NextRowidNoAutoincrement(rows, s) ==
    IF rows = {} THEN 1 ELSE SetMax({r.id : r \in rows}) + 1

(* INTEGER PRIMARY KEY AUTOINCREMENT: one more than the largest rowid the  *)
(* table ever held, which sqlite_sequence (s) remembers                    *)
NextRowid(rows, s) ==
    SetMax({s} \cup {r.id : r \in rows}) + 1

(* the row a SELECT id, value, category, timestamp returns *)
Selected(r) == <<r.id, r.value, r.category, r.timestamp>>

(* no request is being handled *)
Idle == [op |-> "idle"]

(* the webhook requests of a behaviour, and one that has not arrived yet *)
Requests == {"r1", "r2"}
Free == [pc |-> "free"]

Init ==
    /\ expenses = {}
    /\ seq = 0
    /\ now = <<29, 0>>
    /\ graphs = {}
    /\ excels = {}
    /\ last = Idle
    /\ issued = <<>>
    /\ handlers = [h \in Requests |-> Free]

(* the wall clock moves on between two requests *)
Tick ==
    /\ last = Idle
    /\ \E t \in Instants :
          /\ TsLess(now, t)
          /\ now' = t
    /\ UNCHANGED <<expenses, seq, graphs, excels, last, issued, handlers>>

save_expense(user_id, value, category) ==
    /\ last = Idle
    /\ seq < MaxId
    /\ LET id == NextRowid(expenses, seq) IN
          /\ expenses' = expenses \cup
                {[id |-> id, user_id |-> user_id, value |-> value,
                  category |-> category, timestamp |-> now]}
          /\ seq' = id
          /\ issued' = Append(issued, id)
          /\ last' = [op |-> "save_expense", user_id |-> user_id,
                      value |-> value, category |-> category, ret |-> id]
    /\ UNCHANGED <<now, graphs, excels, handlers>>

GetWhereAnyOwner(rows, expense_id, user_id) ==
    {r \in rows : r.id = expense_id}

(* WHERE id = ? AND user_id = ? of the SELECT *)
GetWhere(rows, expense_id, user_id) ==
    {r \in rows : r.id = expense_id /\ r.user_id = user_id}

(* cursor.fetchone(): the row, or None *)
GetExpenseById(rows, expense_id, user_id) ==
    LET found == GetWhere(rows, expense_id, user_id) IN
    IF found = {} THEN None ELSE Some(Selected(CHOOSE r \in found : TRUE))

get_expense_by_id(expense_id, user_id) ==
    /\ last = Idle
    /\ last' = [op |-> "get_expense_by_id", id |-> expense_id,
                user_id |-> user_id,
                ret |-> GetExpenseById(expenses, expense_id, user_id)]
    /\ UNCHANGED <<expenses, seq, now, graphs, excels, issued, handlers>>

DeleteWhereAnyOwner(rows, expense_id, user_id) ==
    {r \in rows : r.id = expense_id}

(* WHERE id = ? AND user_id = ? of the DELETE *)
DeleteWhere(rows, expense_id, user_id) ==
    {r \in rows : r.id = expense_id /\ r.user_id = user_id}

DeleteOutcomeAlwaysTrue(rows, expense_id, user_id) ==
    LET hit == DeleteWhere(rows, expense_id, user_id) IN
    [rows |-> rows \ hit, ret |-> TRUE]

(* the table after delete_expense, and what it returns: rowcount > 0 *)
DeleteOutcome(rows, expense_id, user_id) ==
    LET hit == DeleteWhere(rows, expense_id, user_id) IN
    [rows |-> rows \ hit, ret |-> Cardinality(hit) > 0]

delete_expense(expense_id, user_id) ==
    /\ last = Idle
    /\ LET out == DeleteOutcome(expenses, expense_id, user_id) IN
          /\ expenses' = out.rows
          /\ last' = [op |-> "delete_expense", id |-> expense_id,
                      user_id |-> user_id, ret |-> out.ret]
    /\ UNCHANGED <<seq, now, graphs, excels, issued, handlers>>

(* WHERE id = ? AND user_id = ? of the UPDATE *)
UpdateWhere(rows, expense_id, user_id) ==
    {r \in rows : r.id = expense_id /\ r.user_id = user_id}

UpdatedClearingOthers(r, new_value, new_category) ==
    [r EXCEPT !.value = IF new_value # None THEN new_value[1] ELSE 0,
              !.category = IF new_category # None THEN new_category[1] ELSE <<>>]

(* the SET clause built from the supplied fields *)
Updated(r, new_value, new_category) ==
    [r EXCEPT !.value = IF new_value # None THEN new_value[1] ELSE @,
              !.category = IF new_category # None THEN new_category[1] ELSE @]

UpdateOutcomeNoEarlyReturn(rows, expense_id, user_id, new_value, new_category) ==
    LET hit == UpdateWhere(rows, expense_id, user_id) IN
    [rows |-> (rows \ hit) \cup
                 {Updated(r, new_value, new_category) : r \in hit},
     ret |-> Cardinality(hit) > 0]

(* the table after update_expense, and what it returns *)
UpdateOutcome(rows, expense_id, user_id, new_value, new_category) ==
    IF new_value = None /\ new_category = None
    THEN [rows |-> rows, ret |-> FALSE]
    ELSE LET hit == UpdateWhere(rows, expense_id, user_id) IN
         [rows |-> (rows \ hit) \cup
                      {Updated(r, new_value, new_category) : r \in hit},
          ret |-> Cardinality(hit) > 0]

update_expense(expense_id, user_id, new_value, new_category) ==
    /\ last = Idle
    /\ LET out == UpdateOutcome(expenses, expense_id, user_id,
                                new_value, new_category) IN
          /\ expenses' = out.rows
          /\ last' = [op |-> "update_expense", id |-> expense_id,
                      user_id |-> user_id, new_value |-> new_value,
                      new_category |-> new_category, ret |-> out.ret]
    /\ UNCHANGED <<seq, now, graphs, excels, issued, handlers>>

(* the handler returns its result to the caller *)
Respond ==
    /\ last # Idle
    /\ last' = Idle
    /\ UNCHANGED <<expenses, seq, now, graphs, excels, issued, handlers>>

Save == \E u \in Users, v \in Values, c \in Categories : save_expense(u, v, c)

Get == \E i \in Ids, u \in Users : get_expense_by_id(i, u)

Delete == \E i \in Ids, u \in Users : delete_expense(i, u)

Update ==
    \E i \in Ids, u \in Users, v \in Opt(Values), c \in Opt(Categories) :
        update_expense(i, u, v, c)


-----------------------------------------------------------------------------
(* Claims about the store *)

(* the step is a call of the function op *)
Called(op) == last = Idle /\ last'.op = op

(* C1: for an expense stored under owner A and any other owner B,          *)
(* get_expense_by_id(id, B) returns no record, update_expense(id, B, ...)  *)
(* and delete_expense(id, B) return False; each call leaves the table      *)
(* unchanged and the record is still returned by get_expense_by_id(id, A). *)
C1_OwnerScoping ==
    [][\A r \in expenses :
          (/\ \/ Called("get_expense_by_id")
              \/ Called("delete_expense")
              \/ Called("update_expense")
           /\ last'.id = r.id
           /\ last'.user_id # r.user_id)
          => /\ last'.ret = (IF last'.op = "get_expense_by_id" THEN None ELSE FALSE)
             /\ expenses' = expenses
             /\ GetExpenseById(expenses', r.id, r.user_id) = Some(Selected(r))]_vars

C1_Witness ==
    /\ last.op = "delete_expense"
    /\ last.ret = FALSE
    /\ \E r \in expenses : r.id = last.id /\ r.user_id # last.user_id

(* C2: every id save_expense returns is strictly greater than every id it  *)
(* returned before, no two stored rows share an id, and the id of a        *)
(* deleted row, the highest one included, is never handed out again.       *)
C2_IdsNeverReused ==
    /\ \A i, j \in DOMAIN issued : i < j => issued[i] < issued[j]
    /\ \A r1, r2 \in expenses : r1.id = r2.id => r1 = r2
    /\ \A r \in expenses : r.id \in Range(issued)

(* a save after the row with the highest id was deleted *)
C2_Witness ==
    /\ last.op = "save_expense"
    /\ Len(issued) >= 2
    /\ issued[Len(issued) - 1] \notin {r.id : r \in expenses}
    /\ last.ret = issued[Len(issued)]

(* C3: update_expense with neither a value nor a category returns False    *)
(* and leaves the whole store unchanged, whether or not the row exists.    *)
C3_EmptyUpdateIsNoOp ==
    [][(/\ Called("update_expense")
        /\ last'.new_value = None
        /\ last'.new_category = None)
       => /\ last'.ret = FALSE
          /\ UNCHANGED <<expenses, seq>>]_vars

C3_Witness ==
    /\ last.op = "update_expense"
    /\ last.new_value = None
    /\ last.new_category = None
    /\ last.ret = FALSE
    /\ \E r \in expenses : r.id = last.id /\ r.user_id = last.user_id

(* C4: a successful update_expense changes only the supplied fields of the *)
(* one row matching id and owner; id, owner and timestamp of that row and  *)
(* every other row are unchanged; no step changes the timestamp of an      *)
(* existing row.                                                           *)
C4_UpdateFrame ==
    [][/\ (Called("update_expense") /\ last'.ret = TRUE)
          => \E r \in expenses :
                /\ r.id = last'.id
                /\ r.user_id = last'.user_id
                /\ \E n \in expenses' :
                      /\ n.id = r.id
                      /\ n.user_id = r.user_id
                      /\ n.timestamp = r.timestamp
                      /\ n.value = (IF last'.new_value = None THEN r.value
                                    ELSE last'.new_value[1])
                      /\ n.category = (IF last'.new_category = None
                                       THEN r.category
                                       ELSE last'.new_category[1])
                      /\ expenses' = (expenses \ {r}) \cup {n}
       /\ \A r \in expenses : \A n \in expenses' :
             n.id = r.id => n.timestamp = r.timestamp]_vars

(* only the value was supplied, and the category of the row is not the one *)
(* an update could have written                                            *)
C4_Witness ==
    /\ last.op = "update_expense"
    /\ last.ret = TRUE
    /\ last.new_value = Some(2)
    /\ last.new_category = None
    /\ Cardinality(expenses) = 2
    /\ \E r \in expenses :
          /\ r.id = last.id
          /\ r.value = 2
          /\ r.category = Food
          /\ TsLess(r.timestamp, now)

-----------------------------------------------------------------------------
(* Text normalisation and the category filter *)

(* NFKD decomposition followed by encode('ascii', 'ignore'): an accented   *)
(* letter keeps its base letter, the combining accent is dropped           *)
StripAccent(ch) ==
    CASE ch = "e'" -> "e"
      [] ch = "E'" -> "E"
      [] OTHER -> ch

(* str.lower() of an ASCII letter; lower() of SQLite, which folds ASCII    *)
(* letters only and leaves every other character as it is                  *)
AsciiLower(ch) ==
    CASE ch = "C" -> "c"
      [] ch = "E" -> "e"
      [] ch = "F" -> "f"
      [] ch = "O" -> "o"
      [] OTHER -> ch

normalize_text(text) == [i \in DOMAIN text |-> AsciiLower(StripAccent(text[i]))]

SqlLower(text) == [i \in DOMAIN text |-> AsciiLower(text[i])]

(* text LIKE '%pattern%' for a pattern without the wildcards % and _ :     *)
(* the pattern occurs in the text, ASCII letters compared without case     *)
Like(text, pattern) ==
    \E i \in 0 .. (Len(text) - Len(pattern)) :
        SqlLower(SubSeq(text, i + 1, i + Len(pattern))) = SqlLower(pattern)

(* `if category:` is false for None and for the empty text *)
CategoryMatches(r, category) ==
    (category # None /\ category[1] # <<>>)
        => Like(SqlLower(r.category), normalize_text(category[1]))

-----------------------------------------------------------------------------
(* get_expenses *)

Month(date) == date \div DaysPerMonth

PeriodMatchesAnyDate(r, clock, period_type) ==
    CASE period_type = Some("este mes") -> Month(r.timestamp[1]) = Month(clock[1])
      [] period_type = Some("ultimos 7 dias") ->
            TsLeq(<<clock[1] - SevenDays, clock[2]>>, r.timestamp)
      [] OTHER -> TRUE

(* the date condition appended to the WHERE clause ("este mes" stands for  *)
(* the text 'este mês'); 'ultimas_x', 'total', None and any other text     *)
(* append none                                                             *)
PeriodMatches(r, clock, period_type) ==
    CASE period_type = Some("hoje") -> r.timestamp[1] = clock[1]
      [] period_type = Some("este mes") -> Month(r.timestamp[1]) = Month(clock[1])
      [] period_type = Some("ultimos 7 dias") ->
            TsLeq(<<clock[1] - SevenDays, clock[2]>>, r.timestamp)
      [] OTHER -> TRUE

Filtered(rows, clock, user_id, period_type, category) ==
    {r \in rows : /\ r.user_id = user_id
                  /\ PeriodMatches(r, clock, period_type)
                  /\ CategoryMatches(r, category)}

RECURSIVE OrderByTimestampAsc(_)
OrderByTimestampAsc(S) ==
    IF S = {} THEN {<<>>}
    ELSE UNION {{<<x>> \o rest : rest \in OrderByTimestampAsc(S \ {x})} :
                  x \in {y \in S : \A z \in S : TsLeq(y.timestamp, z.timestamp)}}

(* ORDER BY timestamp DESC: every order of the rows that puts no row after *)
(* an earlier one; SQLite leaves the order of equal timestamps open        *)
RECURSIVE OrderByTimestampDesc(_)
OrderByTimestampDesc(S) ==
    IF S = {} THEN {<<>>}
    ELSE UNION {{<<x>> \o rest : rest \in OrderByTimestampDesc(S \ {x})} :
                  x \in {y \in S : \A z \in S : TsLeq(z.timestamp, y.timestamp)}}

LimitedAlways(s, period_type, limit) ==
    IF period_type = Some("ultimas_x") /\ limit # None /\ limit[1] > 0
    THEN SubSeq(s, 1, IF limit[1] < Len(s) THEN limit[1] ELSE Len(s))
    ELSE s

(* LIMIT ? is appended for 'ultimas_x' with a limit that is not None; a    *)
(* negative LIMIT is no limit in SQLite, LIMIT 0 is no row                 *)
Limited(s, period_type, limit) ==
    IF period_type = Some("ultimas_x") /\ limit # None /\ limit[1] >= 0
    THEN SubSeq(s, 1, IF limit[1] < Len(s) THEN limit[1] ELSE Len(s))
    ELSE s

(* every list cursor.fetchall() can return *)
GetExpenses(rows, clock, user_id, period_type, category, limit) ==
    {[i \in DOMAIN Limited(f, period_type, limit) |-> Selected(f[i])] :
        f \in OrderByTimestampDesc(
                 Filtered(rows, clock, user_id, period_type, category))}

get_expenses(user_id, period_type, category, limit) ==
    /\ last = Idle
    /\ \E result \in GetExpenses(expenses, now, user_id, period_type,
                                 category, limit) :
          last' = [op |-> "get_expenses", user_id |-> user_id,
                   period_type |-> period_type, category |-> category,
                   limit |-> limit, clock |-> now, ret |-> result]
    /\ UNCHANGED <<expenses, seq, now, graphs, excels, issued, handlers>>

Periods == {None, Some("hoje"), Some("este mes"), Some("ultimos 7 dias"),
            Some("total")}
CategoryFilters == {None, Some(<<"F">>), Some(<<"E'">>)}
Limits == {None, Some(-1), Some(0), Some(1), Some(2)}

Query ==
    \E u \in Users, c \in CategoryFilters :
        \/ \E p \in Periods : get_expenses(u, p, c, None)
        \/ \E l \in Limits : get_expenses(u, Some("ultimas_x"), c, l)

Next == Tick \/ Save \/ Get \/ Delete \/ Update \/ Query \/ Respond

Spec == Init /\ [][Next]_vars

-----------------------------------------------------------------------------
(* The report generators.  A directory is the set of its files, a file is  *)
(* [path, complete]; the sheet and the summary a generator built are kept  *)
(* in last.                                                                *)

(* strftime to the second: the fraction of the second is dropped *)
FormatTimestamp(ts) == <<ts[1], ts[2] \div TicksPerSecond>>

(* os.path.join(dir, f"{prefix}_{user_id}_{timestamp_str}.{ext}") *)
FilePath(prefix, user_id, clock) == <<prefix, user_id, FormatTimestamp(clock)>>

(* the directory after a write to path: a file of that path is replaced *)
Written(dir, path, complete) ==
    {f \in dir : f.path # path} \cup {[path |-> path, complete |-> complete]}

(* the directories a write to path can leave behind: the finished file, or *)
(* after a failed write whatever the failure left, nothing or a part       *)
WriteOutcomes(dir, path) ==
    {[ok |-> TRUE, dir |-> Written(dir, path, TRUE)],
     [ok |-> FALSE, dir |-> dir],
     [ok |-> FALSE, dir |-> Written(dir, path, FALSE)]}

FileCount == Cardinality(graphs) + Cardinality(excels)

(* the directories hold at most MaxReports files; a write to the path of a *)
(* file that is there adds none                                            *)
RoomFor(dir, path) ==
    FileCount < MaxReports \/ \E f \in dir : f.path = path

CategoriesOf(data) == {data[i][3] : i \in DOMAIN data}

(* groupby('category')['value'].sum() *)
CategorySum(data, category) ==
    SumSeq([i \in DOMAIN data |->
               IF data[i][3] = category THEN data[i][2] ELSE 0])

RECURSIVE SortValuesAscending(_, _)
SortValuesAscending(data, cats) ==
    IF cats = {} THEN {<<>>}
    ELSE UNION {{<<<<c, CategorySum(data, c)>>>> \o rest :
                    rest \in SortValuesAscending(data, cats \ {c})} :
                  c \in {x \in cats : \A y \in cats :
                            CategorySum(data, x) <= CategorySum(data, y)}}

(* .sort_values(ascending=False) of the sums of the categories cats: the   *)
(* default sort is not stable, so the order of equal sums is open          *)
RECURSIVE SortValuesDescending(_, _)
SortValuesDescending(data, cats) ==
    IF cats = {} THEN {<<>>}
    ELSE UNION {{<<<<c, CategorySum(data, c)>>>> \o rest :
                    rest \in SortValuesDescending(data, cats \ {c})} :
                  c \in {x \in cats : \A y \in cats :
                            CategorySum(data, y) <= CategorySum(data, x)}}

(* every category_summary the chart can be drawn from *)
CategorySummary(data) == SortValuesDescending(data, CategoriesOf(data))

generate_expense_graph(user_id, period_type, category) ==
    /\ last = Idle
    /\ \E data \in GetExpenses(expenses, now, user_id, period_type,
                               category, None) :
          LET call == [op |-> "generate_expense_graph", user_id |-> user_id,
                       period_type |-> period_type, category |-> category,
                       clock |-> now, data |-> data]
          IN
          IF data = <<>>
          THEN /\ last' = call @@ [summary |-> <<>>, ret |-> None]
               /\ graphs' = graphs
          ELSE \E summary \in CategorySummary(data) :
                  IF summary = <<>>
                  THEN /\ last' = call @@ [summary |-> summary, ret |-> None]
                       /\ graphs' = graphs
                  ELSE LET filepath == FilePath("gastos", user_id, now) IN
                       /\ RoomFor(graphs, filepath)
                       /\ \E w \in WriteOutcomes(graphs, filepath) :
                             /\ graphs' = w.dir
                             /\ last' = call @@
                                   [summary |-> summary,
                                    ret |-> IF w.ok THEN Some(filepath)
                                            ELSE None]
    /\ UNCHANGED <<expenses, seq, now, excels, issued, handlers>>

ExcelTotalOfFirst(data) == data[1][2]

(* sum(e[1] for e in expenses_data) *)
ExcelTotal(data) == SumSeq([i \in DOMAIN data |-> data[i][2]])

ExcelNoDataNever(data) == FALSE

(* `if not expenses_data` *)
ExcelNoData(data) == data = <<>>

(* the rows appended to the worksheet *)
Sheet(data) ==
    <<<<"ID", "Valor", "Categoria", "Data e Hora">>>>
    \o [i \in DOMAIN data |->
           <<data[i][1], data[i][2], data[i][3], FormatTimestamp(data[i][4])>>]
    \o <<<<>>, <<"Total Geral", ExcelTotal(data), "", "">>>>

generate_expense_excel(user_id, period_type, category) ==
    /\ last = Idle
    /\ \E data \in GetExpenses(expenses, now, user_id, period_type,
                               category, None) :
          LET call == [op |-> "generate_expense_excel", user_id |-> user_id,
                       period_type |-> period_type, category |-> category,
                       clock |-> now, data |-> data]
          IN
          IF ExcelNoData(data)
          THEN /\ last' = call @@ [sheet |-> <<>>, ret |-> None]
               /\ excels' = excels
          ELSE LET filepath == FilePath("despesas", user_id, now) IN
               /\ RoomFor(excels, filepath)
               /\ \E w \in WriteOutcomes(excels, filepath) :
                     /\ excels' = w.dir
                     /\ last' = call @@
                           [sheet |-> Sheet(data),
                            ret |-> IF w.ok THEN Some(filepath) ELSE None]
    /\ UNCHANGED <<expenses, seq, now, graphs, issued, handlers>>

ReportPeriods == {Some("hoje"), Some("total")}
ReportFilters == {None, Some(<<"F">>)}

Graph ==
    \E u \in Users, p \in ReportPeriods, c \in ReportFilters :
        generate_expense_graph(u, p, c)

Excel ==
    \E u \in Users, p \in ReportPeriods, c \in ReportFilters :
        generate_expense_excel(u, p, c)

(* the rows the reports are drawn from are those of one owner; the other   *)
(* owner asks for reports too                                             *)
SaveOwn == \E v \in Values, c \in Categories : save_expense("U1", v, c)

NextReport == Tick \/ SaveOwn \/ Delete \/ Graph \/ Excel \/ Respond

SpecReport == Init /\ [][NextReport]_vars

-----------------------------------------------------------------------------
(* Claims about get_expenses.  While last.op = "get_expenses" the table is *)
(* the one the query read: every other call replaces last.                 *)

(* the rows of the owner that pass the category filter, as selected *)
OwnerRows(user_id, category) ==
    {Selected(r) : r \in {x \in expenses :
                             x.user_id = user_id /\ CategoryMatches(x, category)}}

Injective(s) == \A i, j \in DOMAIN s : i # j => s[i] # s[j]

Descending(s) == \A i, j \in DOMAIN s : i < j => TsLeq(s[j][4], s[i][4])

Min(a, b) == IF a < b THEN a ELSE b

(* C5: with period 'ultimas_x' and a positive limit k, get_expenses        *)
(* returns min(k, n) of the n rows of the owner that match the category    *)
(* filter: rows with the latest timestamps, in timestamp-descending order. *)
C5_LastNReturnsLatest ==
    (/\ last.op = "get_expenses"
     /\ last.period_type = Some("ultimas_x")
     /\ last.limit # None
     /\ last.limit[1] > 0)
    => LET M == OwnerRows(last.user_id, last.category) IN
       /\ Len(last.ret) = Min(last.limit[1], Cardinality(M))
       /\ Range(last.ret) \subseteq M
       /\ Injective(last.ret)
       /\ Descending(last.ret)
       /\ \A m \in M \ Range(last.ret) : \A x \in Range(last.ret) :
             TsLeq(m[4], x[4])

(* the limit cut off an older row *)
C5_Witness ==
    /\ last.op = "get_expenses"
    /\ last.period_type = Some("ultimas_x")
    /\ last.limit = Some(1)
    /\ Len(last.ret) = 1
    /\ \E m \in OwnerRows(last.user_id, last.category) :
          TsLess(m[4], last.ret[1][4])

(* C6 as stated: with period 'ultimas_x' and a limit that is absent, zero  *)
(* or negative, get_expenses returns all rows of the owner that match the  *)
(* category filter.                                                        *)
C6_NonPositiveLimitIsNoLimit ==
    (/\ last.op = "get_expenses"
     /\ last.period_type = Some("ultimas_x")
     /\ (last.limit = None \/ last.limit[1] <= 0))
    => /\ Range(last.ret) = OwnerRows(last.user_id, last.category)
       /\ Injective(last.ret)
       /\ Descending(last.ret)

(* C6 amended: an absent or negative limit returns all rows of the owner   *)
(* that match the category filter; a limit of zero returns no row.         *)
C6_AbsentOrNegativeLimitIsNoLimit ==
    (/\ last.op = "get_expenses"
     /\ last.period_type = Some("ultimas_x"))
    => /\ (last.limit = None \/ last.limit[1] < 0)
            => /\ Range(last.ret) = OwnerRows(last.user_id, last.category)
               /\ Injective(last.ret)
               /\ Descending(last.ret)
       /\ last.limit = Some(0) => last.ret = <<>>

C6_Witness ==
    /\ last.op = "get_expenses"
    /\ last.period_type = Some("ultimas_x")
    /\ last.limit = Some(-1)
    /\ Len(last.ret) = 2

(* C7: with period 'hoje' and no category filter, get_expenses returns     *)
(* exactly the rows of the owner whose date is the current date, ordered   *)
(* by timestamp descending.                                                *)
C7_TodayReturnsTodaysRows ==
    (/\ last.op = "get_expenses"
     /\ last.period_type = Some("hoje")
     /\ last.category = None)
    => /\ Range(last.ret) =
             {Selected(r) : r \in {x \in expenses :
                                     /\ x.user_id = last.user_id
                                     /\ x.timestamp[1] = last.clock[1]}}
       /\ Injective(last.ret)
       /\ Descending(last.ret)

(* a row of today is returned while the owner's row of the day before is   *)
(* not                                                                     *)
C7_Witness ==
    /\ last.op = "get_expenses"
    /\ last.period_type = Some("hoje")
    /\ last.category = None
    /\ Len(last.ret) = 1
    /\ \E r \in expenses :
          r.user_id = last.user_id /\ r.timestamp[1] < last.clock[1]

-----------------------------------------------------------------------------
(* Claims about the reports.  While last.op names a generator the table is *)
(* the one it read.                                                        *)

(* the rows of the report's owner that pass its period and category filter *)
ReportRows ==
    Filtered(expenses, last.clock, last.user_id, last.period_type,
             last.category)

RECURSIVE ValueSum(_)
ValueSum(S) ==
    IF S = {} THEN 0
    ELSE LET r == CHOOSE x \in S : TRUE IN r.value + ValueSum(S \ {r})

FirstIndex(data, category) ==
    CHOOSE i \in DOMAIN data :
        /\ data[i][3] = category
        /\ \A j \in DOMAIN data : data[j][3] = category => i <= j

SummaryOfFilteredRows ==
    /\ last.data \in GetExpenses(expenses, last.clock, last.user_id,
                                 last.period_type, last.category, None)
    /\ {last.summary[i][1] : i \in DOMAIN last.summary}
          = {r.category : r \in ReportRows}
    /\ Injective(last.summary)
    /\ \A i \in DOMAIN last.summary :
          last.summary[i][2] =
              ValueSum({r \in ReportRows : r.category = last.summary[i][1]})
    /\ \A i, j \in DOMAIN last.summary :
          i < j => last.summary[i][2] >= last.summary[j][2]

(* C8 as stated: the summary of the chart maps each category of the        *)
(* filtered rows to the sum of its values, ordered by sum descending, and  *)
(* two categories of equal sum appear in the order in which they are first *)
(* met in the timestamp-descending rows.                                   *)
C8_SummaryTiesByFirstEncounter ==
    (last.op = "generate_expense_graph" /\ last.data # <<>>)
    => /\ SummaryOfFilteredRows
       /\ \A i, j \in DOMAIN last.summary :
             (i < j /\ last.summary[i][2] = last.summary[j][2])
             => FirstIndex(last.data, last.summary[i][1])
                   < FirstIndex(last.data, last.summary[j][1])

(* C8 amended: the summary of the chart maps each category of the filtered *)
(* rows to the sum of its values and is ordered by sum descending; the     *)
(* order of two categories of equal sum is not fixed.                      *)
C8_SummaryBySumDescending ==
    (last.op = "generate_expense_graph" /\ last.data # <<>>)
    => SummaryOfFilteredRows

(* the category met second in the rows has the larger sum and comes first *)
C8_Witness ==
    /\ last.op = "generate_expense_graph"
    /\ Len(last.summary) = 2
    /\ last.summary[1][2] > last.summary[2][2]
    /\ last.data[1][3] = last.summary[2][1]

(* C9: for a non-empty filtered set the sheet of generate_expense_excel    *)
(* holds, after the header, one row per record get_expenses returned, in   *)
(* that order, then a blank row and a total row whose value is the sum of  *)
(* the values of exactly the listed records.                               *)
C9_SheetRowsAndTotal ==
    (last.op = "generate_expense_excel" /\ last.data # <<>>)
    => LET n == Len(last.data) IN
       /\ last.data \in GetExpenses(expenses, last.clock, last.user_id,
                                    last.period_type, last.category, None)
       /\ Len(last.sheet) = n + 3
       /\ \A i \in 1 .. n :
             last.sheet[i + 1] = <<last.data[i][1], last.data[i][2],
                                   last.data[i][3],
                                   <<last.data[i][4][1],
                                     last.data[i][4][2] \div TicksPerSecond>>>>
       /\ last.sheet[n + 2] = <<>>
       /\ last.sheet[n + 3] =
             <<"Total Geral", SumSeq([i \in 1 .. n |-> last.sheet[i + 1][2]]),
               "", "">>
       /\ last.sheet[n + 3][2] = ValueSum(ReportRows)

C9_Witness ==
    /\ last.op = "generate_expense_excel"
    /\ last.ret # None
    /\ Len(last.data) = 2
    /\ last.sheet[5][2] = 3
    /\ \E f \in excels : f.path = last.ret[1] /\ f.complete

(* C10: when the filtered set of the owner, period and category is empty,  *)
(* generate_expense_graph and generate_expense_excel return None, create   *)
(* no file in either directory and leave the store unchanged.              *)
C10_NoDataNoFile ==
    [][(/\ Called("generate_expense_graph") \/ Called("generate_expense_excel")
        /\ Filtered(expenses, now, last'.user_id, last'.period_type,
                    last'.category) = {})
       => /\ last'.ret = None
          /\ UNCHANGED <<graphs, excels, expenses, seq>>]_vars

(* the owner has a row, of an earlier day, and asks for today's sheet *)
C10_Witness ==
    /\ last.op = "generate_expense_excel"
    /\ last.period_type = Some("hoje")
    /\ last.data = <<>>
    /\ last.ret = None
    /\ \E r \in expenses : r.user_id = last.user_id
    /\ graphs = {}
    /\ excels = {}

-----------------------------------------------------------------------------
(* Claims about the report files *)

(* the generator of this step wrote the file it returns *)
WroteFile ==
    /\ Called("generate_expense_graph") \/ Called("generate_expense_excel")
    /\ last'.ret # None

(* C11: two report generations of the same type that both write a file,    *)
(* also within the same second and for the same owner, write to distinct   *)
(* paths: no generation writes over the file another one has written.      *)
C11_DistinctReportPaths ==
    [][WroteFile
       => \A f \in graphs \cup excels :
             f.complete => f.path # last'.ret[1]]_vars

(* C12: a generation that fails while writing leaves no file at the path   *)
(* it was writing, and a file is at a report path only if it was written   *)
(* completely.                                                             *)
C12_NoPartialFile ==
    /\ \A f \in graphs \cup excels : f.complete
    /\ (/\ last.op \in {"generate_expense_graph", "generate_expense_excel"}
        /\ last.data # <<>>
        /\ last.ret = None)
       => \A f \in graphs \cup excels :
             f.path # FilePath(IF last.op = "generate_expense_graph"
                               THEN "gastos" ELSE "despesas",
                               last.user_id, last.clock)

-----------------------------------------------------------------------------
(* The webhook: the deletar_despesa and editar_despesa branches.  Requests  *)
(* are handled in parallel; a handler's store calls are separate            *)
(* connections, each statement one atomic step of the database.            *)
(* A response text is the tuple of its fixed wording and the values the     *)
(* f-string puts into it.                                                   *)

DeletedWording == "foi deletada com sucesso"
DeletedText(expense, expense_id) ==
    <<DeletedWording, expense[2], expense[3], expense_id>>
NotDeletedText(expense_id) == <<"Nao foi possivel deletar", expense_id>>
NotFoundText(expense_id) == <<"nao encontrada ou nao pertence a voce", expense_id>>
DeleteUsageText == <<"Para deletar uma despesa, por favor, informe o ID">>
UpdatedText(expense_id) == <<"atualizada com sucesso", expense_id>>
NotUpdatedText(expense_id) == <<"Nao foi possivel atualizar", expense_id>>
EditUsageText == <<"Para editar uma despesa, por favor, informe o ID">>

(* the guard of the branch on the parsed parameters *)
HasParameters(h) ==
    IF h.intent = "deletar_despesa"
    THEN h.id # None
    ELSE h.id # None /\ (h.new_value # None \/ h.new_category # None)

(* the handler once the intent is parsed: about to look the expense up, or *)
(* answered with the usage text                                            *)
Parsed(h) ==
    IF HasParameters(h)
    THEN [h EXCEPT !.pc = "get_expense_by_id"]
    ELSE [h EXCEPT !.pc = "done",
                   !.response = IF h.intent = "deletar_despesa"
                                THEN DeleteUsageText ELSE EditUsageText]

(* expense = get_expense_by_id(expense_id, from_number); if expense: ...   *)
LookedUp(rows, h) ==
    LET expense == GetExpenseById(rows, h.id[1], h.from_number) IN
    IF expense # None
    THEN [h EXCEPT !.expense = expense,
                   !.pc = IF h.intent = "deletar_despesa"
                          THEN "delete_expense" ELSE "update_expense"]
    ELSE [h EXCEPT !.pc = "done", !.response = NotFoundText(h.id[1])]

(* if delete_expense(expense_id, from_number): ... else: ...               *)
Deleted(rows, h) ==
    LET out == DeleteOutcome(rows, h.id[1], h.from_number) IN
    [rows |-> out.rows,
     handler |-> [h EXCEPT !.pc = "done",
                           !.response = IF out.ret
                                        THEN DeletedText(h.expense[1], h.id[1])
                                        ELSE NotDeletedText(h.id[1])]]

(* if update_expense(expense_id, from_number, new_value, new_category): ... *)
Edited(rows, h) ==
    LET out == UpdateOutcome(rows, h.id[1], h.from_number,
                             h.new_value, h.new_category) IN
    [rows |-> out.rows,
     handler |-> [h EXCEPT !.pc = "done",
                           !.response = IF out.ret
                                        THEN UpdatedText(h.id[1])
                                        ELSE NotUpdatedText(h.id[1])]]

(* the next store call of a handler: the table and the handler after it *)
HandlerStep(rows, h) ==
    CASE h.pc = "get_expense_by_id" -> [rows |-> rows, handler |-> LookedUp(rows, h)]
      [] h.pc = "delete_expense" -> Deleted(rows, h)
      [] h.pc = "update_expense" -> Edited(rows, h)

(* a request arrives and its intent is parsed *)
Receive(h, intent, from_number, id, new_value, new_category) ==
    /\ handlers[h] = Free
    /\ handlers' = [handlers EXCEPT ![h] =
          Parsed([pc |-> "parsed", intent |-> intent,
                  from_number |-> from_number, id |-> id,
                  new_value |-> new_value, new_category |-> new_category,
                  expense |-> None, response |-> None])]
    /\ UNCHANGED <<expenses, seq, now, graphs, excels, last, issued>>

(* a handler makes its next store call *)
StoreCall(h, pc) ==
    /\ handlers[h].pc = pc
    /\ LET out == HandlerStep(expenses, handlers[h]) IN
          /\ expenses' = out.rows
          /\ handlers' = [handlers EXCEPT ![h] = out.handler]
    /\ UNCHANGED <<seq, now, graphs, excels, last, issued>>

EditParameters == {<<None, None>>, <<Some(2), None>>, <<None, Some(Cafe)>>}

ReceiveDelete ==
    \E h \in Requests, u \in Users, i \in Opt(Ids) :
        Receive(h, "deletar_despesa", u, i, None, None)

ReceiveEdit ==
    \E h \in Requests, u \in Users, i \in Opt(Ids), e \in EditParameters :
        Receive(h, "editar_despesa", u, i, e[1], e[2])

HandlerLookup == \E h \in Requests : StoreCall(h, "get_expense_by_id")

HandlerDelete == \E h \in Requests : StoreCall(h, "delete_expense")

HandlerUpdate == \E h \in Requests : StoreCall(h, "update_expense")

Register == \E u \in Users : save_expense(u, 1, Food)

NextWebhook ==
    \/ Register \/ Respond
    \/ ReceiveDelete \/ ReceiveEdit
    \/ HandlerLookup \/ HandlerDelete \/ HandlerUpdate

SpecWebhook == Init /\ [][NextWebhook]_vars

-----------------------------------------------------------------------------
(* Claims about the webhook *)

(* the table of the run in which no other owner has a record *)
WithoutOthers(rows, user_id) == {r \in rows : r.user_id = user_id}

InFlight(h) == h.pc \in {"get_expense_by_id", "delete_expense", "update_expense"}

(* C13: the response to a delete or edit request of owner B is the same    *)
(* whether the id exists under another owner or under none: every store    *)
(* call of B's handler leaves the handler, its response included, and B's  *)
(* own rows exactly as the same call does in the run whose table holds     *)
(* B's rows only, so the two runs answer B identically.                    *)
C13_ResponseIgnoresOtherOwners ==
    [][\A h \in Requests :
          (InFlight(handlers[h]) /\ handlers'[h] # handlers[h])
          => LET B == handlers[h].from_number
                 alone == HandlerStep(WithoutOthers(expenses, B), handlers[h])
             IN /\ handlers'[h] = alone.handler
                /\ WithoutOthers(expenses', B) = alone.rows]_vars

(* a request answered "not found" for an id that another owner holds *)
C13_Witness ==
    \E h \in Requests :
        /\ handlers[h].pc = "done"
        /\ handlers[h].id # None
        /\ handlers[h].response = NotFoundText(handlers[h].id[1])
        /\ \E r \in expenses :
              r.id = handlers[h].id[1] /\ r.user_id # handlers[h].from_number

(* the answered delete requests for one id and owner *)
AnsweredDeletes(id, user_id) ==
    {h \in Requests :
        /\ handlers[h].pc = "done"
        /\ handlers[h].intent = "deletar_despesa"
        /\ handlers[h].id = Some(id)
        /\ handlers[h].from_number = user_id}

ReportsDeleted(h) == handlers[h].response[1] = DeletedWording

(* C14: of the delete requests for one id and owner, handled concurrently  *)
(* with the lookup and the delete as separate store calls, at most one     *)
(* reports the deletion as successful, the record it reports is gone from  *)
(* the table, and every other one reports not-found or could-not-delete.   *)
C14_AtMostOneDeleteSucceeds ==
    \A id \in Ids, u \in Users :
        LET answered == AnsweredDeletes(id, u)
            deleted == {h \in answered : ReportsDeleted(h)}
        IN /\ Cardinality(deleted) <= 1
           /\ deleted # {} => GetWhere(expenses, id, u) = {}
           /\ \A h \in answered \ deleted :
                 handlers[h].response \in {NotFoundText(id), NotDeletedText(id)}

(* two interleaved deletes of one record: one succeeded, the other found   *)
(* the record and then could not delete it                                 *)
C14_Witness ==
    \E h1, h2 \in Requests, id \in Ids, u \in Users :
        /\ {h1, h2} \subseteq AnsweredDeletes(id, u)
        /\ ReportsDeleted(h1)
        /\ handlers[h2].response = NotDeletedText(id)
====
